---- MODULE Spec2Model ----
(***************************************************************************)
(* OrchestraAI dashboard client (class OrchestraAI): connection lifecycle, *)
(* message log and per-role counters, column panes, focus layout, timeline *)
(* view and the input controller, as a state machine over the object's     *)
(* fields, the parts of the document it reads and writes, the sockets it   *)
(* creates and the timers it schedules.                                    *)
(***************************************************************************)
EXTENDS Integers, Sequences, FiniteSets, TLC

(* ------------------------------ bounds -------------------------------- *)
MaxLog == 2          \* log entries ingested in one run
MaxHistory == 2      \* messages carried by one connection_established
MaxTime == 2         \* timestamps are drawn from 1..MaxTime
MaxSockets == 2      \* WebSocket objects alive or just closed at a time
MaxSent == 1         \* outbound envelopes recorded in one run

(* --------------------------- program constants ------------------------ *)
KnownRoles == {"human", "ether", "product_ai", "architect_ai", "interface_ai", "programmer_ai"}
Columns == KnownRoles            \* the .column elements, one per data-role
Controls == {"send-btn", "interrupt-btn", "human-input"}
null == "null"                   \* the unset value of a role slot
NaN == -1                        \* the value of undefined++ (never a count)
undefined == [undefined |-> TRUE]    \* a missing message payload

(* ------------------------------ inputs -------------------------------- *)
UnknownRole == "intruder"
PlainText == "hello"
MarkdownText == "# Title"
BrokenMarkdown == "- [x](y"      \* markdown on which the converter throws
InputTexts == {"", "  ", " go "} \* what a user may leave in a text field

Message(r, t, c) == [role |-> r, timestamp |-> t, content |-> c]

VARIABLES
    ws,                  \* this.ws: the socket the client references (0: null)
    socks,               \* readyState of every socket created
    closing,             \* socket whose error event ran and whose close event follows in the same task (0: none)
    reconnectTimers,     \* pending setTimeout(setupWebSocket, 3000) callbacks
    isConnected,         \* this.isConnected
    disabled,            \* .disabled of send-btn, interrupt-btn, human-input
    connectionStatus,    \* className of #connection-status
    messages,            \* this.messages
    messageCounts,       \* this.messageCounts
    userSelectedColumn,  \* this.userSelectedColumn
    lastMessageColumn,   \* this.lastMessageColumn
    isComposing,         \* this.isComposing
    panes,               \* children of #messages-<role>
    countText,           \* textContent of each column's .message-count
    newMessage,          \* columns carrying class new-message
    newMessageTimers,    \* pending 1000 ms clear callbacks, per column
    recentlyActive,      \* columns carrying class recently-active
    recentlyActiveTimers,\* pending 2000 ms clear callbacks, per column
    active,              \* columns carrying class active
    userSelected,        \* columns carrying class user-selected
    messageActive,       \* columns carrying class message-active
    hasActive,           \* .columns-container carries class has-active
    dataActive,          \* attribute data-active (<<>>: absent)
    dataDualActive,      \* attribute data-dual-active (<<>>: absent)
    timelineHidden,      \* #timeline-view carries class hidden
    timelineNodes,       \* children of #timeline-messages
    humanInput,          \* value of #human-input
    interruptInput,      \* value of #interrupt-input
    interruptModalHidden,\* #interrupt-modal carries class hidden
    sent                 \* envelopes handed to WebSocket.send, in order

connVars == <<ws, socks, closing, reconnectTimers, isConnected, disabled, connectionStatus>>
storeVars == <<messages, messageCounts, lastMessageColumn, panes, countText, newMessage,
               newMessageTimers, recentlyActive, recentlyActiveTimers, timelineNodes>>
layoutVars == <<active, userSelected, messageActive, hasActive, dataActive, dataDualActive>>
inputVars == <<isComposing, humanInput, interruptInput, interruptModalHidden, sent>>
vars == <<connVars, storeVars, layoutVars, inputVars, userSelectedColumn, timelineHidden>>

(* The part of the object and of the document that message ingestion and  *)
(* the focus logic read and write, as one value the handlers transform.    *)
(* threw records that the running handler was ended by an exception.       *)
View == [messages |-> messages, messageCounts |-> messageCounts,
         userSelectedColumn |-> userSelectedColumn, lastMessageColumn |-> lastMessageColumn,
         panes |-> panes, countText |-> countText,
         newMessage |-> newMessage, newMessageTimers |-> newMessageTimers,
         recentlyActive |-> recentlyActive, recentlyActiveTimers |-> recentlyActiveTimers,
         active |-> active, userSelected |-> userSelected, messageActive |-> messageActive,
         hasActive |-> hasActive, dataActive |-> dataActive, dataDualActive |-> dataDualActive,
         timelineHidden |-> timelineHidden, timelineNodes |-> timelineNodes,
         threw |-> FALSE]

Commit(v) ==
    /\ messages' = v.messages
    /\ messageCounts' = v.messageCounts
    /\ userSelectedColumn' = v.userSelectedColumn
    /\ lastMessageColumn' = v.lastMessageColumn
    /\ panes' = v.panes
    /\ countText' = v.countText
    /\ newMessage' = v.newMessage
    /\ newMessageTimers' = v.newMessageTimers
    /\ recentlyActive' = v.recentlyActive
    /\ recentlyActiveTimers' = v.recentlyActiveTimers
    /\ active' = v.active
    /\ userSelected' = v.userSelected
    /\ messageActive' = v.messageActive
    /\ hasActive' = v.hasActive
    /\ dataActive' = v.dataActive
    /\ dataDualActive' = v.dataDualActive
    /\ timelineHidden' = v.timelineHidden
    /\ timelineNodes' = v.timelineNodes

(* ------------------------- Content Formatter -------------------------- *)
\* containsMarkdown: some structural pattern matches the text
containsMarkdown(text) == text \in {MarkdownText, BrokenMarkdown}

\* marked.parse, an external converter: whether it fails on a content is its
\* own affair; BrokenMarkdown stands for the contents on which it throws.
markedThrows(text) == text = BrokenMarkdown

\* mutant: the role is not looked at
richPath_ignoresRole(messageData) == containsMarkdown(messageData.content)

\* the branch taken by createMessageElement and createTimelineMessageElement
richPath(messageData) == messageData.role # "human" /\ containsMarkdown(messageData.content)

Element(messageData, html) ==
    [role |-> messageData.role, timestamp |-> messageData.timestamp,
     content |-> messageData.content, html |-> html]

\* createMessageElement: the node, or threw when marked.parse throws
createMessageElement(messageData) ==
    IF richPath(messageData)
    THEN IF markedThrows(messageData.content)
         THEN [threw |-> TRUE]
         ELSE [threw |-> FALSE, el |-> Element(messageData, TRUE)]
    ELSE [threw |-> FALSE, el |-> Element(messageData, FALSE)]

\* createTimelineMessageElement: reading .role of a missing payload throws
createTimelineMessageElement(messageData) ==
    IF messageData = undefined
    THEN [threw |-> TRUE]
    ELSE createMessageElement(messageData)

(* ------------------------ Focus State Machine ------------------------- *)
activeColumnsOf(v) ==
    (IF v.userSelectedColumn # null THEN <<v.userSelectedColumn>> ELSE <<>>) \o
    (IF v.lastMessageColumn # null /\ v.lastMessageColumn # v.userSelectedColumn
     THEN <<v.lastMessageColumn>> ELSE <<>>)

\* mutant: user-selected is stripped and not added again
updateColumnLayout_dropsUserSelected(v) ==
    LET activeColumns == activeColumnsOf(v)
        userColumn == IF v.userSelectedColumn \in Columns THEN {v.userSelectedColumn} ELSE {}
        messageColumn == IF v.lastMessageColumn \in Columns THEN {v.lastMessageColumn} ELSE {}
    IN  IF Len(activeColumns) > 0
        THEN [v EXCEPT !.hasActive = TRUE,
                       !.dataActive = IF Len(activeColumns) = 1 THEN activeColumns ELSE <<>>,
                       !.dataDualActive = IF Len(activeColumns) = 2 THEN activeColumns ELSE <<>>,
                       !.active = userColumn \cup messageColumn,
                       !.userSelected = {},
                       !.messageActive = messageColumn]
        ELSE [v EXCEPT !.hasActive = FALSE, !.dataActive = <<>>, !.dataDualActive = <<>>,
                       !.active = {}, !.userSelected = {}, !.messageActive = {}]

\* mutant: the classes of the columns are not removed before the new ones are added
updateColumnLayout_noStrip(v) ==
    LET activeColumns == activeColumnsOf(v)
        userColumn == IF v.userSelectedColumn \in Columns THEN {v.userSelectedColumn} ELSE {}
        messageColumn == IF v.lastMessageColumn \in Columns THEN {v.lastMessageColumn} ELSE {}
    IN  IF Len(activeColumns) > 0
        THEN [v EXCEPT !.hasActive = TRUE,
                       !.dataActive = IF Len(activeColumns) = 1 THEN activeColumns ELSE <<>>,
                       !.dataDualActive = IF Len(activeColumns) = 2 THEN activeColumns ELSE <<>>,
                       !.active = @ \cup userColumn \cup messageColumn,
                       !.userSelected = @ \cup userColumn,
                       !.messageActive = @ \cup messageColumn]
        ELSE [v EXCEPT !.hasActive = FALSE, !.dataActive = <<>>, !.dataDualActive = <<>>]

\* mutant: entering the dual layout leaves the data-active attribute in place
updateColumnLayout_keepsSingleKey(v) ==
    LET activeColumns == activeColumnsOf(v)
        userColumn == IF v.userSelectedColumn \in Columns THEN {v.userSelectedColumn} ELSE {}
        messageColumn == IF v.lastMessageColumn \in Columns THEN {v.lastMessageColumn} ELSE {}
    IN  IF Len(activeColumns) > 0
        THEN [v EXCEPT !.hasActive = TRUE,
                       !.dataActive = IF Len(activeColumns) = 1 THEN activeColumns ELSE @,
                       !.dataDualActive = IF Len(activeColumns) = 2 THEN activeColumns ELSE <<>>,
                       !.active = userColumn \cup messageColumn,
                       !.userSelected = userColumn,
                       !.messageActive = messageColumn]
        ELSE [v EXCEPT !.hasActive = FALSE, !.dataActive = <<>>, !.dataDualActive = <<>>,
                       !.active = {}, !.userSelected = {}, !.messageActive = {}]

updateColumnLayout(v) ==
    LET activeColumns == activeColumnsOf(v)
        userColumn == IF v.userSelectedColumn \in Columns THEN {v.userSelectedColumn} ELSE {}
        messageColumn == IF v.lastMessageColumn \in Columns THEN {v.lastMessageColumn} ELSE {}
    IN  IF Len(activeColumns) > 0
        THEN [v EXCEPT !.hasActive = TRUE,
                       !.dataActive = IF Len(activeColumns) = 1 THEN activeColumns ELSE <<>>,
                       !.dataDualActive = IF Len(activeColumns) = 2 THEN activeColumns ELSE <<>>,
                       !.active = userColumn \cup messageColumn,
                       !.userSelected = userColumn,
                       !.messageActive = messageColumn]
        ELSE [v EXCEPT !.hasActive = FALSE, !.dataActive = <<>>, !.dataDualActive = <<>>,
                       !.active = {}, !.userSelected = {}, !.messageActive = {}]

setUserSelectedColumn(v, role) ==
    LET v1 == updateColumnLayout([v EXCEPT !.userSelectedColumn = role])
    IN  IF role \in Columns THEN [v1 EXCEPT !.userSelected = @ \cup {role}] ELSE v1

setLastMessageColumn(v, role) ==
    LET v1 == updateColumnLayout([v EXCEPT !.lastMessageColumn = role])
    IN  IF role \in Columns
        THEN [v1 EXCEPT !.recentlyActive = @ \cup {role},
                        !.recentlyActiveTimers[role] = @ + 1]
        ELSE v1

(* ------------------------- Timeline Renderer -------------------------- *)
\* Array.prototype.sort with (a, b) => new Date(a.timestamp) - new Date(b.timestamp):
\* stable, and undefined entries are moved to the end without being compared.
RECURSIVE insertByTimestamp(_, _)
insertByTimestamp(sorted, m) ==
    IF sorted = <<>> THEN <<m>>
    ELSE IF sorted[Len(sorted)].timestamp - m.timestamp > 0
         THEN Append(insertByTimestamp(SubSeq(sorted, 1, Len(sorted) - 1), m), sorted[Len(sorted)])
         ELSE Append(sorted, m)

RECURSIVE sortByTimestamp(_)
sortByTimestamp(seq) ==
    IF seq = <<>> THEN <<>>
    ELSE LET last == seq[Len(seq)]
             rest == sortByTimestamp(SubSeq(seq, 1, Len(seq) - 1))
         IN  IF last = undefined THEN Append(rest, last)
             ELSE LET defined == SelectSeq(rest, LAMBDA x : x # undefined)
                      holes == SelectSeq(rest, LAMBDA x : x = undefined)
                  IN  insertByTimestamp(defined, last) \o holes

\* sortedMessages.forEach(... appendChild ...): stops at the first throw
RECURSIVE appendTimelineElements(_, _)
appendTimelineElements(nodes, seq) ==
    IF seq = <<>> THEN [nodes |-> nodes, threw |-> FALSE]
    ELSE LET e == createTimelineMessageElement(Head(seq))
         IN  IF e.threw THEN [nodes |-> nodes, threw |-> TRUE]
             ELSE appendTimelineElements(Append(nodes, e.el), Tail(seq))

\* mutant: the stored log itself is sorted (this.messages.sort(...))
renderTimelineView_sortsLog(v) ==
    LET sortedMessages == sortByTimestamp(v.messages)
        built == appendTimelineElements(<<>>, sortedMessages)
    IN  [v EXCEPT !.messages = sortedMessages, !.timelineNodes = built.nodes,
                  !.threw = built.threw]

\* mutant: the container is not emptied before the nodes are appended
renderTimelineView_keepsOldNodes(v) ==
    LET sortedMessages == sortByTimestamp(v.messages)
        built == appendTimelineElements(v.timelineNodes, sortedMessages)
    IN  [v EXCEPT !.timelineNodes = built.nodes, !.threw = built.threw]

\* mutant: the snapshot is rendered without being sorted
renderTimelineView_unsorted(v) ==
    LET built == appendTimelineElements(<<>>, v.messages)
    IN  [v EXCEPT !.timelineNodes = built.nodes, !.threw = built.threw]

renderTimelineView(v) ==
    LET sortedMessages == sortByTimestamp(v.messages)
        built == appendTimelineElements(<<>>, sortedMessages)
    IN  [v EXCEPT !.timelineNodes = built.nodes, !.threw = built.threw]

(* --------------------------- Column Renderer -------------------------- *)
\* mutant: one clear timer per column, re-armed by each message (debounced)
renderMessageInColumn_debounced(v, messageData) ==
    IF messageData.role \notin Columns THEN v
    ELSE LET e == createMessageElement(messageData)
         IN  IF e.threw THEN [v EXCEPT !.threw = TRUE]
             ELSE [v EXCEPT !.panes[messageData.role] = Append(@, e.el),
                            !.newMessage = @ \cup {messageData.role},
                            !.newMessageTimers[messageData.role] = 1]

renderMessageInColumn(v, messageData) ==
    IF messageData.role \notin Columns THEN v
    ELSE LET e == createMessageElement(messageData)
         IN  IF e.threw THEN [v EXCEPT !.threw = TRUE]
             ELSE [v EXCEPT !.panes[messageData.role] = Append(@, e.el),
                            !.newMessage = @ \cup {messageData.role},
                            !.newMessageTimers[messageData.role] = @ + 1]

updateMessageCount(v, role) ==
    IF role \in Columns THEN [v EXCEPT !.countText[role] = v.messageCounts[role]] ELSE v

(* ---------------------------- Message Store --------------------------- *)
\* mutant: the counter is set instead of incremented
increment_reset(counts, role) ==
    IF role \in DOMAIN counts THEN [counts EXCEPT ![role] = 1] ELSE (role :> NaN) @@ counts

\* this.messageCounts[role]++ : a missing key reads undefined, and undefined++ stores NaN
increment(counts, role) ==
    IF role \in DOMAIN counts
    THEN [counts EXCEPT ![role] = IF @ = NaN THEN NaN ELSE @ + 1]
    ELSE (role :> NaN) @@ counts

addMessage(v, messageData) ==
    LET v1 == [v EXCEPT !.messages = Append(@, messageData)]
    IN  IF messageData = undefined THEN [v1 EXCEPT !.threw = TRUE]
        ELSE LET v2 == [v1 EXCEPT !.messageCounts = increment(@, messageData.role)]
                 v3 == renderMessageInColumn(v2, messageData)
                 v4 == updateMessageCount(v3, messageData.role)
                 v5 == setLastMessageColumn(v4, messageData.role)
             IN  IF v3.threw THEN v3
                 ELSE IF ~v5.timelineHidden THEN renderTimelineView(v5) ELSE v5

\* data.messages.forEach(msg => this.addMessage(msg)): an exception ends the loop
RECURSIVE addEach(_, _)
addEach(v, msgs) ==
    IF msgs = <<>> \/ v.threw THEN v
    ELSE addEach(addMessage(v, Head(msgs)), Tail(msgs))

\* mutant: the default branch falls into the new_message branch
handleWebSocketMessage_defaultIngests(v, data) ==
    IF data.type = "connection_established"
    THEN IF Len(data.messages) > 0 THEN addEach(v, data.messages) ELSE v
    ELSE IF data.type = "new_message" THEN addMessage(v, data.message)
    ELSE addMessage(v, undefined)

handleWebSocketMessage(v, data) ==
    IF data.type = "connection_established"
    THEN IF Len(data.messages) > 0 THEN addEach(v, data.messages) ELSE v
    ELSE IF data.type = "new_message" THEN addMessage(v, data.message)
    ELSE v

(* ------------------------- Connection Manager ------------------------- *)
SockIds == 1..MaxSockets
isFree(s) == socks[s] \in {"NONE", "CLOSED"} /\ s # closing

\* updateConnectionStatus
statusOf(connected) == IF connected THEN "status connected" ELSE "status disconnected"

\* new WebSocket(wsUrl): a socket object that is not in use; the objects are
\* taken in turn, so that a new socket is never confused with the one it replaces
newSocket ==
    LET turn(k) == ((ws + k - 1) % MaxSockets) + 1
        k == CHOOSE i \in 1..MaxSockets : isFree(turn(i)) /\ \A j \in 1..(i - 1) : ~isFree(turn(j))
    IN  turn(k)

\* setupWebSocket: this.ws = new WebSocket(wsUrl), handlers attached; closed
\* sockets, which nothing references any more, are reclaimed
setupWebSocket ==
    /\ \E s \in SockIds : isFree(s)
    /\ ws' = newSocket
    /\ socks' = [s \in SockIds |-> IF s = newSocket THEN "CONNECTING"
                                   ELSE IF isFree(s) THEN "NONE" ELSE socks[s]]

\* mutant: the open handler does not enable the controls
onopen_keepsDisabled(s) ==
    /\ closing = 0
    /\ socks[s] = "CONNECTING"
    /\ socks' = [socks EXCEPT ![s] = "OPEN"]
    /\ isConnected' = TRUE
    /\ connectionStatus' = statusOf(TRUE)
    /\ UNCHANGED <<ws, closing, reconnectTimers, disabled, storeVars, layoutVars, inputVars,
                   userSelectedColumn, timelineHidden>>

\* mutant: the open handler starts the session over with an empty log
onopen_resetsLog(s) ==
    /\ closing = 0
    /\ socks[s] = "CONNECTING"
    /\ socks' = [socks EXCEPT ![s] = "OPEN"]
    /\ isConnected' = TRUE
    /\ connectionStatus' = statusOf(TRUE)
    /\ disabled' = [c \in Controls |-> FALSE]
    /\ messages' = <<>>
    /\ UNCHANGED <<ws, closing, reconnectTimers, messageCounts, lastMessageColumn, panes,
                   countText, newMessage, newMessageTimers, recentlyActive,
                   recentlyActiveTimers, timelineNodes, layoutVars, inputVars,
                   userSelectedColumn, timelineHidden>>

\* ws.onopen
onopen(s) ==
    /\ closing = 0
    /\ socks[s] = "CONNECTING"
    /\ socks' = [socks EXCEPT ![s] = "OPEN"]
    /\ isConnected' = TRUE
    /\ connectionStatus' = statusOf(TRUE)
    /\ disabled' = [c \in Controls |-> FALSE]
    /\ UNCHANGED <<ws, closing, reconnectTimers, storeVars, layoutVars, inputVars,
                   userSelectedColumn, timelineHidden>>

\* mutant: the error handler schedules a reconnect as well
onerror_schedulesToo(s) ==
    /\ closing = 0
    /\ socks[s] \in {"CONNECTING", "OPEN"}
    /\ socks' = [socks EXCEPT ![s] = "CLOSED"]
    /\ closing' = s
    /\ reconnectTimers' = reconnectTimers + 1
    /\ UNCHANGED <<ws, isConnected, disabled, connectionStatus, storeVars,
                   layoutVars, inputVars, userSelectedColumn, timelineHidden>>

\* ws.onerror: logs only; the browser has closed the socket and fires its
\* close event next, in the same task
onerror(s) ==
    /\ closing = 0
    /\ socks[s] \in {"CONNECTING", "OPEN"}
    /\ socks' = [socks EXCEPT ![s] = "CLOSED"]
    /\ closing' = s
    /\ UNCHANGED <<ws, reconnectTimers, isConnected, disabled, connectionStatus, storeVars,
                   layoutVars, inputVars, userSelectedColumn, timelineHidden>>

\* mutant: a reconnect is scheduled only when the lost socket had been open
onclose_retriesOnlyAfterOpen(s) ==
    /\ \/ closing = s
       \/ closing = 0 /\ socks[s] \in {"CONNECTING", "OPEN"}
    /\ socks' = [socks EXCEPT ![s] = "CLOSED"]
    /\ closing' = 0
    /\ isConnected' = FALSE
    /\ connectionStatus' = statusOf(FALSE)
    /\ disabled' = [c \in Controls |-> TRUE]
    /\ reconnectTimers' = IF isConnected THEN reconnectTimers + 1 ELSE reconnectTimers
    /\ UNCHANGED <<ws, storeVars, layoutVars, inputVars, userSelectedColumn, timelineHidden>>

\* mutant: the close handler leaves the liveness flag as it is
onclose_keepsLive(s) ==
    /\ \/ closing = s
       \/ closing = 0 /\ socks[s] \in {"CONNECTING", "OPEN"}
    /\ socks' = [socks EXCEPT ![s] = "CLOSED"]
    /\ closing' = 0
    /\ connectionStatus' = statusOf(FALSE)
    /\ disabled' = [c \in Controls |-> TRUE]
    /\ reconnectTimers' = reconnectTimers + 1
    /\ UNCHANGED <<ws, isConnected, storeVars, layoutVars, inputVars, userSelectedColumn,
                   timelineHidden>>

\* ws.onclose
onclose(s) ==
    /\ \/ closing = s
       \/ closing = 0 /\ socks[s] \in {"CONNECTING", "OPEN"}
    /\ socks' = [socks EXCEPT ![s] = "CLOSED"]
    /\ closing' = 0
    /\ isConnected' = FALSE
    /\ connectionStatus' = statusOf(FALSE)
    /\ disabled' = [c \in Controls |-> TRUE]
    /\ reconnectTimers' = reconnectTimers + 1
    /\ UNCHANGED <<ws, storeVars, layoutVars, inputVars, userSelectedColumn, timelineHidden>>

\* mutant: the reconnect timer is not consumed by its firing (an interval)
reconnectTimerFires_keepsTimer ==
    /\ closing = 0
    /\ reconnectTimers > 0
    /\ reconnectTimers' = reconnectTimers
    /\ setupWebSocket
    /\ UNCHANGED <<closing, isConnected, disabled, connectionStatus, storeVars, layoutVars,
                   inputVars, userSelectedColumn, timelineHidden>>

\* the callback of setTimeout(..., 3000) scheduled by onclose
reconnectTimerFires ==
    /\ closing = 0
    /\ reconnectTimers > 0
    /\ reconnectTimers' = reconnectTimers - 1
    /\ setupWebSocket
    /\ UNCHANGED <<closing, isConnected, disabled, connectionStatus, storeVars, layoutVars,
                   inputVars, userSelectedColumn, timelineHidden>>

\* JSON.parse(event.data): throws on text that is no JSON value
JSONparse(event) ==
    IF "json" \in DOMAIN event THEN [threw |-> FALSE, data |-> event.json] ELSE [threw |-> TRUE]

\* messages a frame would add to the log
payloadSize(event) ==
    IF "json" \notin DOMAIN event THEN 0
    ELSE IF event.json.type = "connection_established" THEN Len(event.json.messages)
    ELSE IF event.json.type = "new_message" THEN 1 ELSE 0

\* ws.onmessage
onmessage(s, event) ==
    /\ closing = 0
    /\ socks[s] = "OPEN"
    /\ Len(messages) + payloadSize(event) <= MaxLog
    /\ LET parsed == JSONparse(event)
       IN  IF parsed.threw THEN Commit(View)
           ELSE Commit(handleWebSocketMessage(View, parsed.data))
    /\ UNCHANGED <<connVars, inputVars>>

(* --------------------------- user interface --------------------------- *)
\* click on a .column element
clickColumn(role) ==
    /\ closing = 0
    /\ Commit(setUserSelectedColumn(View, role))
    /\ UNCHANGED <<connVars, inputVars>>

\* toggleTimelineView
toggleTimelineView ==
    /\ closing = 0
    /\ IF timelineHidden
       THEN Commit(renderTimelineView([View EXCEPT !.timelineHidden = FALSE]))
       ELSE Commit([View EXCEPT !.timelineHidden = TRUE])
    /\ UNCHANGED <<connVars, inputVars>>

\* hideTimelineView (close button, or a click on the backdrop of the open view)
hideTimelineView ==
    /\ closing = 0
    /\ ~timelineHidden
    /\ Commit([View EXCEPT !.timelineHidden = TRUE])
    /\ UNCHANGED <<connVars, inputVars>>

(* ------------------------------- timers ------------------------------- *)
\* the callback of setTimeout(..., 1000) scheduled by renderMessageInColumn
newMessageTimerFires(role) ==
    /\ closing = 0
    /\ newMessageTimers[role] > 0
    /\ newMessageTimers' = [newMessageTimers EXCEPT ![role] = @ - 1]
    /\ newMessage' = newMessage \ {role}
    /\ UNCHANGED <<connVars, messages, messageCounts, lastMessageColumn, panes, countText,
                   recentlyActive, recentlyActiveTimers, timelineNodes, layoutVars, inputVars,
                   userSelectedColumn, timelineHidden>>

\* mutant: the callback also takes the message-active emphasis away
recentlyActiveTimerFires_clearsMessageActive(role) ==
    /\ closing = 0
    /\ recentlyActiveTimers[role] > 0
    /\ recentlyActiveTimers' = [recentlyActiveTimers EXCEPT ![role] = @ - 1]
    /\ recentlyActive' = recentlyActive \ {role}
    /\ messageActive' = messageActive \ {role}
    /\ UNCHANGED <<connVars, messages, messageCounts, lastMessageColumn, panes, countText,
                   newMessage, newMessageTimers, timelineNodes, active, userSelected, hasActive,
                   dataActive, dataDualActive, inputVars, userSelectedColumn, timelineHidden>>

\* the callback of setTimeout(..., 2000) scheduled by setLastMessageColumn
recentlyActiveTimerFires(role) ==
    /\ closing = 0
    /\ recentlyActiveTimers[role] > 0
    /\ recentlyActiveTimers' = [recentlyActiveTimers EXCEPT ![role] = @ - 1]
    /\ recentlyActive' = recentlyActive \ {role}
    /\ UNCHANGED <<connVars, messages, messageCounts, lastMessageColumn, panes, countText,
                   newMessage, newMessageTimers, timelineNodes, layoutVars, inputVars,
                   userSelectedColumn, timelineHidden>>

(* -------------------------- Input Controller -------------------------- *)
\* String.prototype.trim on the texts a field may hold
trim(text) == IF text = " go " THEN "go" ELSE ""

\* a line break typed into a field: whitespace is added to its value
lineBreak(text) == IF text = "" THEN "  " ELSE text

\* this.ws.send(JSON.stringify({type, content})): throws on a socket that is
\* still connecting; otherwise the envelope is handed to the socket
wsSendThrows == socks[ws] = "CONNECTING"
Envelope(type, content) ==
    [type |-> type, content |-> content, readyState |-> socks[ws]]

\* mutant: the field's raw value is sent
sendHumanInput_untrimmed ==
    LET content == trim(humanInput)
    IN  IF content = "" \/ ~isConnected \/ wsSendThrows
        THEN UNCHANGED <<humanInput, sent>>
        ELSE /\ sent' = Append(sent, Envelope("human_input", humanInput))
             /\ humanInput' = ""

\* mutant: the field is cleared before the content is examined
sendHumanInput_clearsOnReject ==
    LET content == trim(humanInput)
    IN  IF content = "" \/ ~isConnected \/ wsSendThrows
        THEN humanInput' = "" /\ UNCHANGED sent
        ELSE /\ sent' = Append(sent, Envelope("human_input", content))
             /\ humanInput' = ""

sendHumanInput ==
    LET content == trim(humanInput)
    IN  IF content = "" \/ ~isConnected \/ wsSendThrows
        THEN UNCHANGED <<humanInput, sent>>
        ELSE /\ sent' = Append(sent, Envelope("human_input", content))
             /\ humanInput' = ""

\* hideInterruptModal
hideInterruptModal ==
    /\ interruptModalHidden' = TRUE
    /\ interruptInput' = ""

\* mutant: the modal is left open after the envelope is sent
confirmInterrupt_keepsModal ==
    LET content == trim(interruptInput)
    IN  IF content = "" \/ ~isConnected \/ wsSendThrows
        THEN UNCHANGED <<interruptInput, interruptModalHidden, sent>>
        ELSE /\ sent' = Append(sent, Envelope("interrupt", content))
             /\ UNCHANGED <<interruptInput, interruptModalHidden>>

\* mutant: the liveness flag is not consulted
confirmInterrupt_unguarded ==
    LET content == trim(interruptInput)
    IN  IF content = "" \/ wsSendThrows
        THEN UNCHANGED <<interruptInput, interruptModalHidden, sent>>
        ELSE /\ sent' = Append(sent, Envelope("interrupt", content))
             /\ hideInterruptModal

confirmInterrupt ==
    LET content == trim(interruptInput)
    IN  IF content = "" \/ ~isConnected \/ wsSendThrows
        THEN UNCHANGED <<interruptInput, interruptModalHidden, sent>>
        ELSE /\ sent' = Append(sent, Envelope("interrupt", content))
             /\ hideInterruptModal

\* the user edits #human-input (an enabled field)
typeHumanInput(text) ==
    /\ closing = 0
    /\ ~disabled["human-input"]
    /\ humanInput' = text
    /\ UNCHANGED <<connVars, storeVars, layoutVars, userSelectedColumn, timelineHidden,
                   isComposing, interruptInput, interruptModalHidden, sent>>

\* the user edits #interrupt-input (in the open modal)
typeInterruptInput(text) ==
    /\ closing = 0
    /\ ~interruptModalHidden
    /\ interruptInput' = text
    /\ UNCHANGED <<connVars, storeVars, layoutVars, userSelectedColumn, timelineHidden,
                   isComposing, humanInput, interruptModalHidden, sent>>

\* click on #send-btn
clickSend ==
    /\ closing = 0
    /\ ~disabled["send-btn"]
    /\ Len(sent) < MaxSent
    /\ sendHumanInput
    /\ UNCHANGED <<connVars, storeVars, layoutVars, userSelectedColumn, timelineHidden,
                   isComposing, interruptInput, interruptModalHidden>>

\* compositionstart / compositionend on #human-input
compositionstart ==
    /\ closing = 0
    /\ ~disabled["human-input"]
    /\ ~isComposing
    /\ isComposing' = TRUE
    /\ UNCHANGED <<connVars, storeVars, layoutVars, userSelectedColumn, timelineHidden,
                   humanInput, interruptInput, interruptModalHidden, sent>>

compositionend ==
    /\ closing = 0
    /\ isComposing
    /\ isComposing' = FALSE
    /\ UNCHANGED <<connVars, storeVars, layoutVars, userSelectedColumn, timelineHidden,
                   humanInput, interruptInput, interruptModalHidden, sent>>

\* mutant: the composing flag is not consulted (Enter submits, Shift+Enter breaks the line)
keydownEnter_ignoresComposing(shiftKey) ==
    /\ closing = 0
    /\ ~disabled["human-input"]
    /\ Len(sent) < MaxSent
    /\ IF ~shiftKey THEN sendHumanInput
       ELSE /\ humanInput' = lineBreak(humanInput)
            /\ UNCHANGED sent
    /\ UNCHANGED <<connVars, storeVars, layoutVars, userSelectedColumn, timelineHidden,
                   isComposing, interruptInput, interruptModalHidden>>

\* keydown of Enter on #human-input
keydownEnter(shiftKey) ==
    /\ closing = 0
    /\ ~disabled["human-input"]
    /\ Len(sent) < MaxSent
    /\ IF isComposing
       THEN IF shiftKey THEN sendHumanInput ELSE UNCHANGED <<humanInput, sent>>
       ELSE IF ~shiftKey THEN sendHumanInput
            ELSE /\ humanInput' = lineBreak(humanInput)
                 /\ UNCHANGED sent
    /\ UNCHANGED <<connVars, storeVars, layoutVars, userSelectedColumn, timelineHidden,
                   isComposing, interruptInput, interruptModalHidden>>

\* click on #interrupt-btn: showInterruptModal
showInterruptModal ==
    /\ closing = 0
    /\ ~disabled["interrupt-btn"]
    /\ interruptModalHidden' = FALSE
    /\ UNCHANGED <<connVars, storeVars, layoutVars, userSelectedColumn, timelineHidden,
                   isComposing, humanInput, interruptInput, sent>>

\* click on #interrupt-confirm
clickInterruptConfirm ==
    /\ closing = 0
    /\ ~interruptModalHidden
    /\ Len(sent) < MaxSent
    /\ confirmInterrupt
    /\ UNCHANGED <<connVars, storeVars, layoutVars, userSelectedColumn, timelineHidden,
                   isComposing, humanInput>>

\* sendHumanInput and confirmInterrupt called on the object itself
\* (window.orchestraAI), whatever the state of the controls
callSendHumanInput ==
    /\ closing = 0
    /\ Len(sent) < MaxSent
    /\ sendHumanInput
    /\ UNCHANGED <<connVars, storeVars, layoutVars, userSelectedColumn, timelineHidden,
                   isComposing, interruptInput, interruptModalHidden>>

callConfirmInterrupt ==
    /\ closing = 0
    /\ Len(sent) < MaxSent
    /\ confirmInterrupt
    /\ UNCHANGED <<connVars, storeVars, layoutVars, userSelectedColumn, timelineHidden,
                   isComposing, humanInput>>

\* click on #interrupt-cancel, or on the backdrop of the open modal
clickInterruptCancel ==
    /\ closing = 0
    /\ ~interruptModalHidden
    /\ hideInterruptModal
    /\ UNCHANGED <<connVars, storeVars, layoutVars, userSelectedColumn, timelineHidden,
                   isComposing, humanInput, sent>>

(* --------------------------- initial state ---------------------------- *)
\* the state once the constructor and init() have run on the loaded page
Init ==
    /\ ws = 1
    /\ socks = [s \in SockIds |-> IF s = 1 THEN "CONNECTING" ELSE "NONE"]
    /\ closing = 0
    /\ reconnectTimers = 0
    /\ isConnected = FALSE
    /\ disabled = [c \in Controls |-> TRUE]
    /\ connectionStatus = statusOf(FALSE)
    /\ messages = <<>>
    /\ messageCounts = [r \in KnownRoles |-> 0]
    /\ userSelectedColumn = null
    /\ lastMessageColumn = null
    /\ isComposing = FALSE
    /\ panes = [r \in Columns |-> <<>>]
    /\ countText = [r \in Columns |-> 0]
    /\ newMessage = {}
    /\ newMessageTimers = [r \in Columns |-> 0]
    /\ recentlyActive = {}
    /\ recentlyActiveTimers = [r \in Columns |-> 0]
    /\ active = {}
    /\ userSelected = {}
    /\ messageActive = {}
    /\ hasActive = FALSE
    /\ dataActive = <<>>
    /\ dataDualActive = <<>>
    /\ timelineHidden = TRUE
    /\ timelineNodes = <<>>
    /\ humanInput = ""
    /\ interruptInput = ""
    /\ interruptModalHidden = TRUE
    /\ sent = <<>>

(* ------------------------- inbound frame inputs ----------------------- *)
MessagesOver(roles, contents) ==
    {Message(r, t, c) : r \in roles, t \in 1..MaxTime, c \in contents}

HistoriesOver(msgs) ==
    UNION {[1..n -> msgs] : n \in 0..MaxHistory}

\* parsed envelopes: a history, one message, a new_message without its
\* message, and a type this client does not know
FramesOver(msgs) ==
    {[type |-> "connection_established", messages |-> h] : h \in HistoriesOver(msgs)}
    \cup {[type |-> "new_message", message |-> m] : m \in msgs \cup {undefined}}
    \cup {[type |-> "status_update"]}

\* frames as received: JSON text of an envelope, or text that is no JSON
EventsOver(msgs) ==
    {[json |-> f] : f \in FramesOver(msgs)} \cup {[text |-> "{oops"]}

(* ---------------------------- specifications -------------------------- *)
Connection ==
    \/ \E s \in SockIds : onopen(s)
    \/ \E s \in SockIds : onerror(s)
    \/ \E s \in SockIds : onclose(s)
    \/ reconnectTimerFires

Inbound(events) == \E s \in SockIds : \E event \in events : onmessage(s, event)

Timeline == toggleTimelineView \/ hideTimelineView

Selection(roles) == \E role \in roles : clickColumn(role)

VisualTimers ==
    \/ \E role \in Columns : newMessageTimerFires(role)
    \/ \E role \in Columns : recentlyActiveTimerFires(role)

Typing ==
    \/ \E text \in InputTexts : typeHumanInput(text)
    \/ \E text \in InputTexts : typeInterruptInput(text)
    \/ compositionstart
    \/ compositionend

Submission ==
    \/ clickSend
    \/ \E shiftKey \in BOOLEAN : keydownEnter(shiftKey)
    \/ showInterruptModal
    \/ clickInterruptConfirm
    \/ clickInterruptCancel

\* the whole client
Next ==
    \/ Connection
    \/ Inbound(EventsOver(MessagesOver(KnownRoles \cup {UnknownRole},
                                       {PlainText, MarkdownText, BrokenMarkdown})))
    \/ Timeline
    \/ Selection(Columns)
    \/ VisualTimers
    \/ Typing
    \/ Submission

Spec == Init /\ [][Next]_vars

\* Message Store and Timeline Renderer under the connection lifecycle: frames
\* of an agent role and of a role without a column, in any timestamp order
StoreMessages == MessagesOver({"ether", UnknownRole}, {PlainText})
StoreEvents == EventsOver(StoreMessages)
NextStore ==
    \/ Connection
    \/ Inbound(StoreEvents)
    \/ Timeline

SpecStore == Init /\ [][NextStore]_vars

\* every kind of operation together (ingest, timeline, selection, visual
\* timers, send, disconnect and reconnect) on live messages of one role
LogMessages == {Message("ether", 2, PlainText), Message("ether", 1, PlainText)}
LogEvents == {[json |-> [type |-> "new_message", message |-> m]] : m \in LogMessages}
NextLog ==
    \/ Connection
    \/ Inbound(LogEvents)
    \/ Timeline
    \/ Selection({"ether"})
    \/ VisualTimers
    \/ typeHumanInput(" go ")
    \/ clickSend

SpecLog == Init /\ [][NextLog]_vars

\* Connection Manager and Input Controller, with one live message to receive
ConnEvents == {[json |-> [type |-> "new_message", message |-> Message("ether", 1, PlainText)]]}
NextConn ==
    \/ Connection
    \/ Inbound(ConnEvents)
    \/ Typing
    \/ Submission

SpecConn == Init /\ [][NextConn]_vars

\* timers fire: a pending setTimeout callback is eventually run
FairConn == SpecConn /\ WF_vars(reconnectTimerFires)

\* Focus State Machine: column clicks and live messages of two roles that
\* have a column and of one that has none, one of them failing in the converter
FocusRoles == {"human", "ether"}
FocusMessages ==
    {Message(r, 1, PlainText) : r \in FocusRoles \cup {UnknownRole}}
    \cup {Message("ether", 1, BrokenMarkdown)}
FocusEvents == {[json |-> [type |-> "new_message", message |-> m]] : m \in FocusMessages}
NextFocus ==
    \/ Connection
    \/ Inbound(FocusEvents)
    \/ Selection(FocusRoles)

SpecFocus == Init /\ [][NextFocus]_vars

\* Content Formatter: histories and live messages of the human role and of an
\* agent role, with plain, structured and converter-breaking contents
FormatMessages ==
    {Message(r, 1, c) : r \in {"human", "ether"}, c \in {PlainText, MarkdownText, BrokenMarkdown}}
FormatEvents ==
    {[json |-> [type |-> "connection_established", messages |-> h]] :
        h \in HistoriesOver(FormatMessages)}
    \cup {[json |-> [type |-> "new_message", message |-> m]] : m \in FormatMessages}
NextFormat ==
    \/ Connection
    \/ Inbound(FormatEvents)
    \/ Timeline

SpecFormat == Init /\ [][NextFormat]_vars

\* Input Controller with its two submission methods also called directly
NextSubmit ==
    \/ NextConn
    \/ callSendHumanInput
    \/ callConfirmInterrupt

SpecSubmit == Init /\ [][NextSubmit]_vars

\* Focus State Machine with the visual-clear timers: message arrivals, column
\* clicks and timer firings in any order, across disconnects and reconnects
NextVisual ==
    \/ NextFocus
    \/ VisualTimers

SpecVisual == Init /\ [][NextVisual]_vars

\* timers fire: a pending setTimeout callback is run once its delay has
\* passed, between two tasks (it cannot run inside the task that dispatches
\* an error event and the close event after it, hence strong fairness), and
\* the close event that follows an error event is dispatched
FairVisual ==
    /\ SpecVisual
    /\ \A s \in SockIds : WF_vars(closing = s /\ onclose(s))
    /\ \A role \in FocusRoles : SF_vars(newMessageTimerFires(role))
    /\ \A role \in FocusRoles : SF_vars(recentlyActiveTimerFires(role))

\* the two focus slots under column clicks and live messages, one of which
\* carries no role (its role reads as null/undefined)
NoRoleMessage == Message(null, 1, PlainText)
SlotMessages == FocusMessages \cup {NoRoleMessage}
SlotEvents == {[json |-> [type |-> "new_message", message |-> m]] : m \in SlotMessages}
NextSlots ==
    \/ Connection
    \/ Inbound(SlotEvents)
    \/ Selection(FocusRoles)

SpecSlots == Init /\ [][NextSlots]_vars

(* ============================== properties ============================ *)
definedEntries == {i \in DOMAIN messages : messages[i] # undefined}
rolesInLog == {messages[i].role : i \in definedEntries}
countRole(r) == Cardinality({i \in definedEntries : messages[i].role = r})
allDisabled == \A c \in Controls : disabled[c]
allEnabled == \A c \in Controls : ~disabled[c]
\* a state between two tasks of the event loop
betweenTasks == closing = 0

\* C1 (as stated): for every role occurring in the log, messageCounts[role]
\* is the number of log entries of that role.
C1_EveryRoleInLogCounted ==
    \A r \in rolesInLog : r \in DOMAIN messageCounts /\ messageCounts[r] = countRole(r)

\* C1 (amended): for each of the six known roles, messageCounts[role] is the
\* number of log entries of that role, after every ingest.
C1_KnownRolesCounted ==
    \A r \in KnownRoles : r \in DOMAIN messageCounts /\ messageCounts[r] = countRole(r)

C1_Witness ==
    /\ countRole("ether") = 2
    /\ messageCounts["ether"] = 2

\* C2: the message log is append-only: every step leaves it unchanged or
\* appends entries at its end; no entry is removed, reordered or replaced.
C2_LogAppendOnly ==
    [][/\ Len(messages') >= Len(messages)
       /\ SubSeq(messages', 1, Len(messages)) = messages]_vars

C2_Witness ==
    /\ Len(messages) >= 2
    /\ messages[1].timestamp > messages[2].timestamp
    /\ Len(timelineNodes) >= 2
    /\ userSelectedColumn # null
    /\ Len(sent) > 0
    /\ ws # 1
    /\ reconnectTimers > 0

\* the close event of socket s is dispatched by this step
closeDispatched(s) ==
    /\ closing' = 0
    /\ \/ closing = s
       \/ closing = 0 /\ socks[s] \in {"CONNECTING", "OPEN"} /\ socks'[s] = "CLOSED"
\* the sockets this step creates (calls of setupWebSocket)
socketsCreated == {s \in SockIds : socks'[s] = "CONNECTING" /\ socks[s] # "CONNECTING"}

\* C3: every channel loss (close event, of an open or a connecting socket)
\* sets the liveness flag false, disables the controls and schedules exactly
\* one reconnect timer (nothing else schedules one); a firing timer calls
\* setupWebSocket exactly once (and nothing else calls it).
C3_LossSchedulesOneReconnect ==
    [][/\ \A s \in SockIds : closeDispatched(s) =>
              ~isConnected' /\ (\A c \in Controls : disabled'[c])
              /\ reconnectTimers' = reconnectTimers + 1
       /\ reconnectTimers' > reconnectTimers => \E s \in SockIds : closeDispatched(s)
       /\ reconnectTimers' < reconnectTimers =>
              /\ reconnectTimers' = reconnectTimers - 1
              /\ Cardinality(socketsCreated) = 1
              /\ ws' \in socketsCreated
       /\ socketsCreated # {} => reconnectTimers' < reconnectTimers]_vars

C3_Witness ==
    /\ betweenTasks
    /\ reconnectTimers = 1
    /\ socks[ws] = "CLOSED"
    /\ ~isConnected /\ allDisabled
    /\ Len(sent) > 0

\* C4: reconnection is unbounded and unconditional: a disconnected client
\* always has a connecting socket or a pending reconnect timer, a pending
\* timer is never cancelled (it only goes away by creating a socket), and,
\* timers firing, a loss is always eventually followed by a new attempt.
C4_AlwaysRetries ==
    /\ [](betweenTasks /\ ~isConnected =>
             (\E s \in SockIds : socks[s] = "CONNECTING") \/ reconnectTimers > 0)
    /\ [][reconnectTimers' < reconnectTimers => socketsCreated # {}]_vars
    /\ (reconnectTimers > 0) ~> (socks[ws] = "CONNECTING")

C4_Witness ==
    /\ socks[ws] = "CONNECTING"
    /\ ws # 1
    /\ Len(messages) > 0
    /\ reconnectTimers = 0

\* C5: no envelope is emitted while the liveness flag is false and nothing
\* is queued: an emitting step happens while live and emits one envelope made
\* of a field's current content; an open event emits nothing.
C5_NoSendWhileDown ==
    [][/\ sent' # sent =>
              /\ isConnected
              /\ \E e \in {[type |-> t, content |-> c, readyState |-> socks[ws]] :
                               t \in {"human_input", "interrupt"},
                               c \in {trim(humanInput), trim(interruptInput)}} :
                     sent' = Append(sent, e)
       /\ (\E s \in SockIds : socks[s] = "CONNECTING" /\ socks'[s] = "OPEN") => sent' = sent
       /\ ~isConnected => sent' = sent]_vars

C5_Witness ==
    /\ betweenTasks
    /\ ~isConnected
    /\ reconnectTimers > 0
    /\ ~interruptModalHidden
    /\ trim(interruptInput) # ""
    /\ trim(humanInput) # ""
    /\ sent = <<>>

\* C6: the dependent controls are enabled exactly when the liveness flag is
\* true, in every state from initialisation on.
C6_ControlsFollowLiveness ==
    \A c \in Controls : disabled[c] = ~isConnected

C6_Witness ==
    /\ isConnected /\ allEnabled
    /\ ws # 1
    /\ socks[ws] = "OPEN"

\* what n new_message envelopes carrying the messages of a history, each
\* handled by its own onmessage, leave behind
RECURSIVE liveReplay(_, _)
liveReplay(v, history) ==
    IF history = <<>> THEN v
    ELSE liveReplay([handleWebSocketMessage(v, [type |-> "new_message", message |-> Head(history)])
                        EXCEPT !.threw = FALSE],
                    Tail(history))

historyReplay(v, history) ==
    [handleWebSocketMessage(v, [type |-> "connection_established", messages |-> history])
        EXCEPT !.threw = FALSE]

\* C7: a connection_established carrying history [m1..mn] leaves log,
\* counters, focus state and views as n new_message envelopes would have.
C7_HistoryEqualsLive ==
    \A history \in HistoriesOver(StoreMessages) :
        historyReplay(View, history) = liveReplay(View, history)

MalformedEvents == {[text |-> "{oops"], [json |-> [type |-> "new_message", message |-> undefined]]}

\* C8: a malformed inbound frame is dropped: log, counters and focus state
\* are unchanged by it.
C8_MalformedDropped ==
    [][(\E s \in SockIds : \E event \in MalformedEvents : onmessage(s, event)) =>
           /\ messages' = messages
           /\ messageCounts' = messageCounts
           /\ userSelectedColumn' = userSelectedColumn
           /\ lastMessageColumn' = lastMessageColumn]_vars

\* C9: an envelope of a type other than connection_established and
\* new_message changes nothing at all.
C9_UnknownTypeIgnored ==
    [][(\E s \in SockIds : onmessage(s, [json |-> [type |-> "status_update"]])) =>
           UNCHANGED vars]_vars

C9_Witness ==
    /\ betweenTasks
    /\ socks[ws] = "OPEN"
    /\ Len(messages) > 0
    /\ ~timelineHidden
    /\ lastMessageColumn # null

\* C10: the timeline displays entries in non-decreasing timestamp order,
\* whatever the receipt order of the log.
C10_TimelineSorted ==
    \A i, j \in DOMAIN timelineNodes :
        i < j => timelineNodes[i].timestamp <= timelineNodes[j].timestamp

C10_Witness ==
    /\ Len(timelineNodes) >= 2
    /\ Len(timelineNodes) = Len(messages)
    /\ \E i, j \in definedEntries : i < j /\ messages[i].timestamp > messages[j].timestamp

\* the place of log entry i in a stable ascending order of the log: after the
\* entries of a smaller timestamp and after the earlier entries of its own
stablePlace(log, i) ==
    1 + Cardinality({j \in DOMAIN log :
                        /\ log[j] # undefined
                        /\ \/ log[j].timestamp < log[i].timestamp
                           \/ log[j].timestamp = log[i].timestamp /\ j < i})

\* the displayed sequence shows every entry of the log once, in stable
\* ascending timestamp order
showsStablySorted(nodes, log) ==
    /\ Len(nodes) = Len(log)
    /\ \A i \in DOMAIN log :
           /\ log[i] # undefined
           /\ nodes[stablePlace(log, i)].role = log[i].role
           /\ nodes[stablePlace(log, i)].timestamp = log[i].timestamp
           /\ nodes[stablePlace(log, i)].content = log[i].content

\* C11: the timeline built by renderTimelineView is a permutation of the full
\* log (same entries, same multiplicity) in ascending timestamp order, entries
\* of equal timestamp keeping their receipt order.
C11_StablePermutation ==
    showsStablySorted(renderTimelineView(View).timelineNodes, messages)

\* log, counters and focus state of a view
sessionState(v) ==
    <<v.messages, v.messageCounts, v.countText, v.userSelectedColumn, v.lastMessageColumn,
      v.hasActive, v.dataActive, v.dataDualActive, v.active, v.userSelected, v.messageActive>>

\* C12: renderTimelineView never mutates the stored log: in every state, also
\* with a log out of timestamp order, a rebuild leaves the log (same entries,
\* receipt order), the counters and the focus state as they were; so does the
\* step that opens the timeline.
C12_RebuildKeepsLog ==
    /\ [](sessionState(renderTimelineView(View)) = sessionState(View))
    /\ [][toggleTimelineView => sessionState(View)' = sessionState(View)]_vars

C12_Witness ==
    /\ ~timelineHidden
    /\ Len(messages) = 2
    /\ definedEntries = DOMAIN messages
    /\ messages[1].timestamp > messages[2].timestamp
    /\ timelineNodes[1].timestamp < timelineNodes[2].timestamp
    /\ lastMessageColumn = "ether"
    /\ messageCounts["ether"] > 0

\* C13: timeline rebuild is idempotent: with no ingestion in between, a
\* second renderTimelineView displays the sequence the first one displayed,
\* and closing and re-opening an up-to-date timeline displays it again.
C13_RebuildIdempotent ==
    /\ [](renderTimelineView(renderTimelineView(View)).timelineNodes
              = renderTimelineView(View).timelineNodes)
    /\ [][toggleTimelineView /\ timelineHidden
              /\ timelineNodes = renderTimelineView(View).timelineNodes
            => timelineNodes' = timelineNodes]_vars

C13_Witness ==
    /\ timelineHidden
    /\ Len(timelineNodes) = 2
    /\ timelineNodes = renderTimelineView(View).timelineNodes
    /\ timelineNodes[1].role # messages[1].role

\* C14: whenever the timeline view is open its content is the
\* timestamp-sorted image of the full current log (rebuilt on opening and
\* after every ingestion while open), and an ingestion while it is closed
\* leaves its content alone.
C14_OpenTimelineShowsLog ==
    /\ [](betweenTasks /\ ~timelineHidden => showsStablySorted(timelineNodes, messages))
    /\ [][timelineHidden /\ timelineHidden' => timelineNodes' = timelineNodes]_vars


\* a live new_message envelope carrying m is handled by this step
ingests(m) ==
    \E s \in SockIds : onmessage(s, [json |-> [type |-> "new_message", message |-> m]])

\* C15: focus scenario: with role A selected, receiving a message of another
\* role B yields the dual-active layout keyed by (A, B), and receiving a
\* message of role A yields the single-active layout keyed by A with no
\* dual-active key left.
C15_FocusScenario ==
    [][\A m \in FocusMessages :
           ingests(m) /\ userSelectedColumn # null =>
               IF m.role # userSelectedColumn
               THEN /\ dataDualActive' = <<userSelectedColumn, m.role>>
                    /\ dataActive' = <<>>
               ELSE /\ dataActive' = <<userSelectedColumn>>
                    /\ dataDualActive' = <<>>]_vars

\* the layout the two role slots call for: <<has-active, data-active, data-dual-active>>
layoutFor(selected, last) ==
    IF selected = null /\ last = null THEN <<FALSE, <<>>, <<>>>>
    ELSE IF selected = null THEN <<TRUE, <<last>>, <<>>>>
    ELSE IF last = null \/ last = selected THEN <<TRUE, <<selected>>, <<>>>>
    ELSE <<TRUE, <<>>, <<selected, last>>>>

\* C16: the layout mode is a function of (userSelected, lastActive) only:
\* none when both are unset, single-active keyed by the one role when one is
\* set or both are equal, dual-active keyed by the ordered pair when both are
\* set and distinct; the two keys are never both present and has-active is
\* present exactly when one of them is.
C16_LayoutFollowsSlots ==
    /\ <<hasActive, dataActive, dataDualActive>> = layoutFor(userSelectedColumn, lastMessageColumn)
    /\ ~(dataActive # <<>> /\ dataDualActive # <<>>)
    /\ hasActive <=> (dataActive # <<>> \/ dataDualActive # <<>>)

C16_Witness ==
    /\ userSelectedColumn = "human"
    /\ lastMessageColumn = "ether"
    /\ dataDualActive = <<"human", "ether">>
    /\ Len(panes["human"]) = 1
    /\ socks[ws] = "OPEN"


\* every node displayed in a column pane or in the timeline
displayedNodes ==
    UNION {{panes[r][i] : i \in DOMAIN panes[r]} : r \in Columns}
    \cup {timelineNodes[i] : i \in DOMAIN timelineNodes}

\* C17: a displayed message went through the rich-markup path if and only if
\* its role is not human and its content carries a structural marker: a human
\* message is literal text whatever its content, an agent message without a
\* marker is literal text, in the column view and in the timeline view.
C17_RichOnlyForStructuredAgentContent ==
    \A n \in displayedNodes :
        n.html <=> (n.role # "human" /\ n.content \in {MarkdownText, BrokenMarkdown})

C17_Witness ==
    /\ ~timelineHidden
    /\ \E i, j \in DOMAIN timelineNodes :
           /\ timelineNodes[i] = [role |-> "human", timestamp |-> 1,
                                  content |-> MarkdownText, html |-> FALSE]
           /\ timelineNodes[j] = [role |-> "ether", timestamp |-> 1,
                                  content |-> MarkdownText, html |-> TRUE]
    /\ panes["human"] = <<[role |-> "human", timestamp |-> 1,
                           content |-> MarkdownText, html |-> FALSE]>>
    /\ panes["ether"] = <<[role |-> "ether", timestamp |-> 1,
                           content |-> MarkdownText, html |-> TRUE]>>


\* the messages on which the rich-markup converter fails
converterFails(m) == m.role # "human" /\ m.content = BrokenMarkdown

\* C18: a converter failure does not propagate: the message is displayed as
\* literal text and its ingestion completes (log, column node, displayed
\* count, lastActive, open timeline), and a connection_established history
\* is ingested whole.
C18_ConverterFailureContained ==
    [][/\ \A m \in FormatMessages :
              converterFails(m) /\ ingests(m) =>
                  /\ messages' = Append(messages, m)
                  /\ panes'[m.role] = Append(panes[m.role], Element(m, FALSE))
                  /\ countText'[m.role] = messageCounts'[m.role]
                  /\ lastMessageColumn' = m.role
                  /\ ~timelineHidden => Len(timelineNodes') = Len(messages')
       /\ \A history \in HistoriesOver(FormatMessages) :
              (\E s \in SockIds :
                   onmessage(s, [json |-> [type |-> "connection_established",
                                           messages |-> history]]))
                  => messages' = messages \o history]_vars


\* C19: ingesting a message of a role that is none of the six known roles
\* does not fail: the log grows by that message, no column pane receives a
\* node or a highlight timer, the counters of the six known roles are
\* unchanged, and a rebuild of the timeline includes the message.
C19_UnknownRoleIngested ==
    [][\A m \in FocusMessages :
           m.role \notin KnownRoles /\ ingests(m) =>
               /\ messages' = Append(messages, m)
               /\ panes' = panes
               /\ newMessage' = newMessage /\ newMessageTimers' = newMessageTimers
               /\ recentlyActive' = recentlyActive
               /\ recentlyActiveTimers' = recentlyActiveTimers
               /\ \A r \in KnownRoles : /\ messageCounts'[r] = messageCounts[r]
                                         /\ countText'[r] = countText[r]
               /\ \E i \in DOMAIN renderTimelineView(View).timelineNodes' :
                      renderTimelineView(View).timelineNodes'[i].role = m.role]_vars


\* this step invokes sendHumanInput / confirmInterrupt
invokesSendHumanInput ==
    \/ clickSend
    \/ callSendHumanInput
    \/ isComposing /\ keydownEnter(TRUE)
    \/ ~isComposing /\ keydownEnter(FALSE)
invokesConfirmInterrupt == clickInterruptConfirm \/ callConfirmInterrupt

\* C20: a rejected submission changes nothing: sendHumanInput or
\* confirmInterrupt invoked with a content that is empty after trimming, or
\* while the connection is not live, sends no envelope, leaves the field's
\* content and (for interrupt) the modal as they were.
C20_RejectedSubmissionChangesNothing ==
    [][/\ invokesSendHumanInput /\ (trim(humanInput) = "" \/ ~isConnected)
           => UNCHANGED vars
       /\ invokesConfirmInterrupt /\ (trim(interruptInput) = "" \/ ~isConnected)
           => UNCHANGED vars]_vars

C20_Witness ==
    /\ betweenTasks
    /\ ~isConnected
    /\ socks[ws] = "CONNECTING" /\ ws # 1
    /\ humanInput = " go "
    /\ interruptInput = " go "
    /\ ~interruptModalHidden
    /\ sent = <<>>


\* C21: a successful sendHumanInput (trimmed content not empty, connection
\* live) emits exactly one envelope, of type human_input, carrying the
\* trimmed content on the open current socket, and clears the human input
\* field; it emits no interrupt envelope and touches neither the log nor the
\* counters (nor anything else).
C21_SendHumanInputEmitsOne ==
    [][invokesSendHumanInput /\ trim(humanInput) # "" /\ isConnected =>
           /\ sent' = Append(sent, [type |-> "human_input", content |-> trim(humanInput),
                                    readyState |-> "OPEN"])
           /\ humanInput' = ""
           /\ UNCHANGED <<connVars, storeVars, layoutVars, userSelectedColumn, timelineHidden,
                          isComposing, interruptInput, interruptModalHidden>>]_vars

C21_Witness ==
    /\ sent = <<[type |-> "human_input", content |-> "go", readyState |-> "OPEN"]>>
    /\ humanInput = ""
    /\ Len(messages) = 1
    /\ messageCounts["ether"] = 1

\* C22: a successful confirmInterrupt (trimmed content not empty, connection
\* live) emits exactly one envelope, of type interrupt (never human_input),
\* carrying the trimmed content, hides the interrupt modal and clears the
\* interrupt input field.
C22_ConfirmInterruptEmitsOne ==
    [][invokesConfirmInterrupt /\ trim(interruptInput) # "" /\ isConnected =>
           /\ sent' = Append(sent, [type |-> "interrupt", content |-> trim(interruptInput),
                                    readyState |-> "OPEN"])
           /\ interruptModalHidden'
           /\ interruptInput' = ""
           /\ UNCHANGED <<connVars, storeVars, layoutVars, userSelectedColumn, timelineHidden,
                          isComposing, humanInput>>]_vars

C22_Witness ==
    /\ sent = <<[type |-> "interrupt", content |-> "go", readyState |-> "OPEN"]>>
    /\ interruptModalHidden
    /\ interruptInput = ""
    /\ humanInput = " go "


\* the envelope a submission of the human input field appends
submitsHumanInput ==
    sent' = Append(sent, [type |-> "human_input", content |-> trim(humanInput),
                          readyState |-> socks[ws]])
canSubmit == trim(humanInput) # "" /\ isConnected

\* C23: the composing flag is false at start, set by compositionstart, reset
\* by compositionend and changed by nothing else; while it is true Enter
\* submits only with Shift held (plain Enter never submits), while it is
\* false plain Enter submits and Shift+Enter does not.
C23_EnterSubmissionRule ==
    [][/\ isComposing' # isComposing =>
              \/ compositionstart /\ isComposing'
              \/ compositionend /\ ~isComposing'
       /\ compositionstart => isComposing'
       /\ compositionend => ~isComposing'
       /\ isComposing /\ keydownEnter(FALSE) => UNCHANGED vars
       /\ isComposing /\ keydownEnter(TRUE) /\ canSubmit => submitsHumanInput
       /\ ~isComposing /\ keydownEnter(FALSE) /\ canSubmit => submitsHumanInput
       /\ ~isComposing /\ keydownEnter(TRUE) => sent' = sent]_vars

C23_Witness ==
    /\ isComposing
    /\ Len(sent) = 1 /\ sent[1].type = "human_input"
    /\ humanInput = ""
    /\ isConnected


\* the connection state the client's own fields encode
connectionState ==
    IF isConnected THEN "open"
    ELSE IF reconnectTimers > 0 THEN "closed-pending-retry"
    ELSE "connecting"

\* C24: the connection state is connecting (a connecting socket, not live),
\* open (an open socket, live) or closed-pending-retry (a closed socket, not
\* live, one reconnect timer pending); its only transitions are connecting ->
\* open, connecting -> closed-pending-retry, open -> closed-pending-retry
\* and, on the reconnect timer, closed-pending-retry -> connecting; an error
\* event alone changes neither the state nor the liveness flag.
C24_ConnectionStateMachine ==
    /\ [](betweenTasks =>
             /\ connectionState = "open" => socks[ws] = "OPEN" /\ reconnectTimers = 0
             /\ connectionState = "connecting" => socks[ws] = "CONNECTING"
             /\ connectionState = "closed-pending-retry" =>
                    socks[ws] = "CLOSED" /\ reconnectTimers = 1)
    /\ [][/\ connectionState' # connectionState =>
                  \/ connectionState = "connecting" /\ connectionState' = "open"
                  \/ connectionState = "connecting" /\ connectionState' = "closed-pending-retry"
                  \/ connectionState = "open" /\ connectionState' = "closed-pending-retry"
                  \/ /\ connectionState = "closed-pending-retry"
                     /\ connectionState' = "connecting"
                     /\ reconnectTimerFires
           /\ \A s \in SockIds : onerror(s) =>
                  /\ connectionState' = connectionState
                  /\ UNCHANGED <<ws, isConnected, reconnectTimers, disabled, connectionStatus>>]_vars

C24_Witness ==
    /\ betweenTasks
    /\ connectionState = "closed-pending-retry"
    /\ ws # 1
    /\ socks[ws] = "CLOSED"
    /\ Len(messages) > 0


\* C25: a message arriving for a role r that has a column sets the
\* recently-active emphasis on r's column at once and schedules its clear
\* timer; the emphasis is eventually cleared, by a firing of such a timer and
\* by nothing else, and the clearing leaves the focus slots and the layout
\* (mode, key, column classes) derived from them in force.
C25_RecentlyActiveSelfClears ==
    /\ [][\A m \in FocusMessages :
              m.role \in Columns /\ ingests(m) =>
                  /\ m.role \in recentlyActive'
                  /\ recentlyActiveTimers'[m.role] = recentlyActiveTimers[m.role] + 1]_vars
    /\ \A r \in FocusRoles : (r \in recentlyActive) ~> (r \notin recentlyActive)
    /\ [][\A r \in Columns :
              r \in recentlyActive /\ r \notin recentlyActive' =>
                  /\ recentlyActiveTimerFires(r)
                  /\ UNCHANGED <<layoutVars, lastMessageColumn, userSelectedColumn>>]_vars


\* C26: every message rendered into a column sets the new-message flag of
\* that column at once and schedules a clear timer of its own: k messages
\* rendered into one column schedule k timers (none is coalesced), each
\* firing takes one timer away and clears the flag, and every scheduled
\* timer eventually fires.
C26_NewMessageTimerPerMessage ==
    /\ [][\A r \in Columns :
              /\ Len(panes'[r]) > Len(panes[r]) =>
                     /\ r \in newMessage'
                     /\ newMessageTimers'[r] - newMessageTimers[r] = Len(panes'[r]) - Len(panes[r])
              /\ newMessageTimers'[r] > newMessageTimers[r] => Len(panes'[r]) > Len(panes[r])
              /\ newMessageTimers'[r] < newMessageTimers[r] =>
                     /\ newMessageTimers'[r] = newMessageTimers[r] - 1
                     /\ r \notin newMessage'
                     /\ newMessageTimerFires(r)]_vars
    /\ \A r \in FocusRoles : (newMessageTimers[r] > 0) ~> (newMessageTimers[r] = 0)

C26_Witness ==
    /\ Len(panes["ether"]) = 2
    /\ newMessageTimers["ether"] = 1
    /\ "ether" \notin newMessage


\* C27: the firing of a visual-clear timer changes only its own flag on its
\* own column: a step that consumes a new-message (recently-active) timer of
\* column r takes at most new-message (recently-active) off r and changes
\* nothing else, in particular not the focus slots, the layout mode or key,
\* or the active / user-selected / message-active classes of any column.
C27_TimersTouchOwnFlag ==
    [][\A r \in Columns :
           /\ newMessageTimers'[r] < newMessageTimers[r] =>
                  /\ newMessage' = newMessage \ {r}
                  /\ newMessageTimers' = [newMessageTimers EXCEPT ![r] = @ - 1]
                  /\ UNCHANGED <<connVars, layoutVars, inputVars, userSelectedColumn,
                                 timelineHidden, messages, messageCounts, lastMessageColumn,
                                 panes, countText, recentlyActive, recentlyActiveTimers,
                                 timelineNodes>>
           /\ recentlyActiveTimers'[r] < recentlyActiveTimers[r] =>
                  /\ recentlyActive' = recentlyActive \ {r}
                  /\ recentlyActiveTimers' = [recentlyActiveTimers EXCEPT ![r] = @ - 1]
                  /\ UNCHANGED <<connVars, layoutVars, inputVars, userSelectedColumn,
                                 timelineHidden, messages, messageCounts, lastMessageColumn,
                                 panes, countText, newMessage, newMessageTimers,
                                 timelineNodes>>]_vars

C27_Witness ==
    /\ dataDualActive = <<"human", "ether">>
    /\ messageActive = {"ether"}
    /\ userSelected = {"human"}
    /\ recentlyActiveTimers["ether"] = 0 /\ "ether" \notin recentlyActive
    /\ newMessageTimers["ether"] = 0 /\ "ether" \notin newMessage
    /\ Len(panes["ether"]) = 2


\* this step recomputes the layout (updateColumnLayout runs in it)
recomputesLayout ==
    \/ \E role \in FocusRoles : clickColumn(role)
    \/ \E m \in FocusMessages : ~converterFails(m) /\ ingests(m)

\* the columns that are neither the userSelected nor the lastActive column
unfocusedColumns == Columns \ {userSelectedColumn, lastMessageColumn}

\* C28 (as stated): every recomputation of the layout strips all columns of
\* active, user-selected, message-active and recently-active, so right after
\* it no column other than the userSelected and the lastActive column
\* carries any of these classes.
C28_EveryEmphasisStripped ==
    [][recomputesLayout =>
           \A c \in unfocusedColumns' :
               c \notin active' \cup userSelected' \cup messageActive' \cup recentlyActive']_vars

\* C28 (amended): every recomputation of the layout strips all columns of
\* active, user-selected and message-active, so right after it no column
\* other than the userSelected and the lastActive column carries any of
\* these three; recently-active is not stripped by a recomputation.
C28_LayoutClassesStripped ==
    [][recomputesLayout =>
           /\ \A c \in unfocusedColumns' :
                  c \notin active' \cup userSelected' \cup messageActive'
           /\ recentlyActive \subseteq recentlyActive']_vars

C28_Witness ==
    /\ userSelectedColumn = "human"
    /\ lastMessageColumn = "human"
    /\ active = {"human"}
    /\ "ether" \in recentlyActive
    /\ Len(panes["ether"]) = 1


\* C29: the user-selected class is carried by exactly the column of the
\* current userSelected role (by none before the first selection), in every
\* state: across message arrivals, timer firings, disconnects and reconnects,
\* until the user selects another column, which then carries it alone.
C29_UserSelectedPersists ==
    userSelected = IF userSelectedColumn = null THEN {} ELSE {userSelectedColumn}

C29_Witness ==
    /\ userSelectedColumn = "ether"
    /\ userSelected = {"ether"}
    /\ lastMessageColumn = "human"
    /\ Len(messages) = 2
    /\ \A r \in Columns : newMessageTimers[r] = 0 /\ recentlyActiveTimers[r] = 0
    /\ ws # 1
    /\ ~isConnected


\* C30: the two focus slots are independent single slots: both start unset,
\* userSelected is changed only by a column click (never by an ingestion),
\* lastActive only by an ingestion (never by a column click), and no step
\* resets a set slot to unset.
C30_SlotsIndependent ==
    /\ userSelectedColumn = null /\ lastMessageColumn = null
    /\ [][/\ userSelectedColumn' # userSelectedColumn =>
                 /\ \E role \in FocusRoles : clickColumn(role) /\ userSelectedColumn' = role
                 /\ lastMessageColumn' = lastMessageColumn
          /\ lastMessageColumn' # lastMessageColumn =>
                 /\ \E m \in SlotMessages : ingests(m)
                 /\ userSelectedColumn' = userSelectedColumn
          /\ userSelectedColumn # null => userSelectedColumn' # null
          /\ lastMessageColumn # null => lastMessageColumn' # null]_vars


\* C31: lastActive is the role of the most recently appended log entry: in
\* every state with a non-empty log lastMessageColumn is the role of the last
\* log entry, and a history replay leaves it at the role of the last message
\* of the history.
C31_LastActiveIsLastEntry ==
    /\ [](messages # <<>> => lastMessageColumn = messages[Len(messages)].role)
    /\ [][\A history \in HistoriesOver(FormatMessages) :
              /\ history # <<>>
              /\ \E s \in SockIds :
                     onmessage(s, [json |-> [type |-> "connection_established",
                                             messages |-> history]])
              => lastMessageColumn' = history[Len(history)].role]_vars


\* C32: a role's column carries recently-active for as long as a clear timer
\* of that role is pending: when a second message for role r arrives while
\* the timer of an earlier one is pending, the late firing of the earlier
\* timer does not leave r's column without the emphasis before the newer
\* message's own timer fires.
C32_EmphasisUntilNewestTimer ==
    \A r \in Columns : recentlyActiveTimers[r] > 0 => r \in recentlyActive


\* the sockets that are connecting or open
liveSockets == {s \in SockIds : socks[s] \in {"CONNECTING", "OPEN"}}
\* the connection efforts in existence: live sockets and pending reconnect timers
connectionEfforts == Cardinality(liveSockets) + reconnectTimers

connectionEvent ==
    \/ \E s \in SockIds : onopen(s) \/ onerror(s) \/ onclose(s)
    \/ reconnectTimerFires

\* C35: connection events preserve session state: an open, close or error
\* event and the firing of the reconnect timer (every step that changes a
\* socket, the liveness flag or the reconnect timers) leave the message log,
\* the per-role counters, both focus slots, the layout mode and keys and the
\* timeline's open/closed status unchanged.
C35_ConnectionEventsKeepSession ==
    [][connectionEvent \/ connVars' # connVars =>
           UNCHANGED <<messages, messageCounts, userSelectedColumn, lastMessageColumn,
                       layoutVars, timelineHidden>>]_vars

C35_Witness ==
    /\ betweenTasks
    /\ ws = 2 /\ socks[2] = "CONNECTING"
    /\ Len(messages) = 2
    /\ messageCounts["ether"] = 2
    /\ userSelectedColumn = "ether" /\ lastMessageColumn = "ether"
    /\ dataActive = <<"ether">>
    /\ ~timelineHidden


\* C36: ingestion never deduplicates or drops: every accepted envelope makes
\* the log longer by the number of messages it carries (one for new_message,
\* the list length for connection_established), whether or not the same
\* messages are already in the log.
C36_EveryCarriedMessageLogged ==
    [][\A event \in FormatEvents :
           (\E s \in SockIds : onmessage(s, event)) =>
               Len(messages') = Len(messages) + payloadSize(event)]_vars


\* the log entries of a role, in receipt order
logOfRole(r) == SelectSeq(messages, LAMBDA m : m # undefined /\ m.role = r)
\* the messages the nodes of a role's pane were made from, in pane order
paneMessages(r) ==
    [i \in DOMAIN panes[r] |->
        Message(panes[r][i].role, panes[r][i].timestamp, panes[r][i].content)]

\* C37: each column pane is the projection of the log onto its role: for
\* each of the six known roles the nodes of the role's pane are made from
\* the log entries of that role, in receipt order, none missing, none extra.
C37_PaneIsLogProjection ==
    \A r \in KnownRoles : paneMessages(r) = logOfRole(r)


\* C38: for each known role the count displayed in the role's column header
\* equals the internal per-role counter, and with it the number of log
\* entries of that role; the display neither lags behind nor runs ahead.
C38_DisplayedCountIsCounter ==
    \A r \in KnownRoles :
        countText[r] = messageCounts[r] /\ messageCounts[r] = countRole(r)


\* the roles named by the layout keys data-active and data-dual-active
keyedRoles ==
    {dataActive[i] : i \in DOMAIN dataActive} \cup {dataDualActive[i] : i \in DOMAIN dataDualActive}

\* C39: the layout keys only ever name roles that have a column: the
\* single-active key and both components of the dual-active key are among
\* the six known roles, and every role named by a key has a column carrying
\* the active class.
C39_KeysNameColumns ==
    keyedRoles \subseteq KnownRoles /\ keyedRoles \subseteq active

====
